---- MODULE Spec2Model ----
(***************************************************************************)
(* Calibration grid engine of beacon_axis_twist_compensation:              *)
(*   BeaconAxisTwistCompensation  (src/beacon_axis_twist_compensation.py)   *)
(*   GantryTwistUtility           (src/gantry_twist_utility/...)           *)
(*   AxisTwistCompUtility         (src/gantry_twist_utility/...)           *)
(*                                                                         *)
(* A command handler runs on the host's cooperative scheduler: it runs     *)
(* without interruption from one blocking call (G-code script, wait_moves, *)
(* dwell, probe compare) to the next.  An invocation is therefore either   *)
(* suspended in a blocking call, or at an internal position, in which case *)
(* nothing else runs until it blocks again or ends.                        *)
(*                                                                         *)
(* Spec: the host processes one command at a time; the operator may cancel *)
(* a run, and every blocking call may raise.                               *)
(* SpecReentrant: a command may also be invoked while another invocation   *)
(* is blocked in a call, which is the case the "already running" check of  *)
(* the handlers is written for.                                            *)
(*                                                                         *)
(* Lengths are integers in 1/1000 mm, probe readings in 1/10000 um, so     *)
(* that the 6-decimal formatting of the values string is a real rounding.  *)
(***************************************************************************)
EXTENDS Integers, Sequences, FiniteSets, TLC

(* ---- bounds of the model ---- *)
MaxInv == 2        \* number of command invocations in one behaviour
MaxFaults == 1     \* number of abnormal outcomes (errors, missing results, cancellations) injected
MaxSize == 3       \* largest sample count and grid size of a direct planner call

(* ---- configuration of BeaconAxisTwistCompensation ---- *)
min_x == 22000
max_x == 190000
min_y == 30000
max_y == 180000
calibrate_y == 100000
calibrate_x == 110000
SAMPLE_COUNT == 3

(* ---- configuration of GantryTwistUtility ---- *)
g_min_x == 22000
g_max_x == 283000
g_min_y == 24000
g_max_y == 280000
grid_size == 2
sampling_direction == "xy"
config_mode == 0
beacon_safe_home_pos == <<150000, 140000>>
pre_test_gcode == <<"_SETTLE_PRINT_BED", "BEACON_AUTO_CALIBRATE", "Z_TILT_ADJUST", "G28 Z">>

None == "None"      \* absent text value
Absent == 0 - 1        \* absent integer value (every integer parameter has minval 0 or more)
Objs == {"beacon", "gantry"}
Invs == 1..MaxInv

(* ---- inputs ---- *)
\* texts of the errors a blocking call may raise
ErrorTexts ==
    << <<"M","C","U"," ","S","h","u","t","d","o","w","n">>,
       <<"p","r","o","b","e"," ","t","i","m","e","o","u","t"," ","d","u","e"," ","t","o"," ","r","e","t","r","i","e","s">> >>
\* outcome of a blocking call: 0 = returns normally, e > 0 = raises ErrorTexts[e]
Outcomes == 0..Len(ErrorTexts)
\* the bed under the probe: what a compare at point pt measures, when it measures
\* anything (position[2] and delta of beacon.last_offset_result)
ProbeResult(pt) ==
    [contact_z |-> 20000 + pt[1] \div 1000,
     delta |-> 2 * (pt[1] \div 1000) - 3 * (pt[2] \div 1000) + 7]
\* (BED_TEMP, HOTEND_TEMP) of a GANTRY_TWIST_UTILITY invocation
Temps == { <<0, 0>>, <<60, 200>> }
\* MODE of a GANTRY_TWIST_UTILITY invocation (Absent: no MODE parameter)
ModeParams == {Absent, 0, 1, 2}
\* AXIS of a BEACON_AXIS_TWIST_COMPENSATION invocation (any text is accepted)
AxisParams == {"X", "Y", "Z"}

(* ---- the fault classifier ---- *)
LowerChar(c) ==
    CASE c = "A" -> "a" [] c = "B" -> "b" [] c = "C" -> "c" [] c = "D" -> "d"
      [] c = "E" -> "e" [] c = "F" -> "f" [] c = "G" -> "g" [] c = "H" -> "h"
      [] c = "I" -> "i" [] c = "J" -> "j" [] c = "K" -> "k" [] c = "L" -> "l"
      [] c = "M" -> "m" [] c = "N" -> "n" [] c = "O" -> "o" [] c = "P" -> "p"
      [] c = "Q" -> "q" [] c = "R" -> "r" [] c = "S" -> "s" [] c = "T" -> "t"
      [] c = "U" -> "u" [] c = "V" -> "v" [] c = "W" -> "w" [] c = "X" -> "x"
      [] c = "Y" -> "y" [] c = "Z" -> "z" [] OTHER -> c

\* the text taken as it is
LowerKeepsCase(s) == s

Lower(s) == [k \in 1..Len(s) |-> LowerChar(s[k])]

\* Python's  marker in msg
Contains(msg, marker) ==
    \E off \in 0..(Len(msg) - Len(marker)) :
        \A k \in 1..Len(marker) : msg[off + k] = marker[k]

fatal_markers ==
    << <<"m","c","u"," ","s","h","u","t","d","o","w","n">>,
       <<"m","c","u"," ","'","m","c","u","'"," ","s","h","u","t","d","o","w","n">>,
       <<"t","i","m","e","r"," ","t","o","o"," ","c","l","o","s","e">>,
       <<"f","i","r","m","w","a","r","e"," ","r","e","s","t","a","r","t">>,
       <<"f","i","r","m","w","a","r","e","_","r","e","s","t","a","r","t">>,
       <<"s","h","u","t","d","o","w","n"," ","d","u","e"," ","t","o">>,
       <<"l","o","s","t"," ","c","o","m","m","u","n","i","c","a","t","i","o","n"," ","w","i","t","h"," ","m","c","u">>,
       <<"c","o","m","m","u","n","i","c","a","t","i","o","n"," ","t","i","m","e","o","u","t">>,
       <<"p","r","i","n","t","e","r"," ","i","s"," ","n","o","t"," ","r","e","a","d","y">>,
       <<"h","e","a","t","e","r"," ","d","e","c","o","u","p","l","e","d">>,
       <<"h","e","a","t","e","r"," ","n","o","t"," ","h","e","a","t","i","n","g">>,
       <<"h","e","a","t","e","r"," ","n","o","t"," ","h","e","a","t","i","n","g"," ","a","t"," ","e","x","p","e","c","t","e","d"," ","r","a","t","e">>,
       <<"t","h","e","r","m","i","s","t","o","r"," ","o","u","t"," ","o","f"," ","r","a","n","g","e">>,
       <<"a","d","c"," ","o","u","t"," ","o","f"," ","r","a","n","g","e">> >>

_is_fatal_klipper_error(err) ==
    LET msg == Lower(err)
    IN  \E m \in 1..Len(fatal_markers) : Contains(msg, fatal_markers[m])

\* classification of the outcome e > 0 of a blocking call
Fatal(e) == _is_fatal_klipper_error(ErrorTexts[e])

(* ---- the point planners ---- *)
\* positions counted from the upper bound
calc_pos_from_max(min_val, max_val, idx, size) ==
    IF size = 1 THEN (min_val + max_val) \div 2
    ELSE max_val - ((max_val - min_val) * idx) \div (size - 1)

calc_pos(min_val, max_val, idx, size) ==
    IF size = 1 THEN (min_val + max_val) \div 2
    ELSE min_val + ((max_val - min_val) * idx) \div (size - 1)

\* BeaconAxisTwistCompensation._generate_grid_points, self the configuration
\* of the object
BeaconPoints(self, axis, sample_count) ==
    IF axis = "X"
    THEN [k \in 1..sample_count |->
            <<calc_pos(self.min_x, self.max_x, k - 1, sample_count), self.calibrate_y>>]
    ELSE [k \in 1..sample_count |->
            <<self.calibrate_x, calc_pos(self.min_x, self.max_x, k - 1, sample_count)>>]

\* odd rows staying at their first column
SerpIdxStays(r, c, n) == IF r % 2 = 0 THEN c ELSE 0

\* every row swept in ascending order
SerpIdxRaster(r, c, n) == c

\* every row swept in descending order
SerpIdxDescending(r, c, n) == n - 1 - c

\* column index visited at position c (0-based) of serpentine row r (0-based)
SerpIdx(r, c, n) == IF r % 2 = 0 THEN c ELSE n - 1 - c

\* GantryTwistUtility._generate_grid_points raises ValueError unless this holds
GantryPlanValid(m, dir) == m = 1 \/ (m = 0 /\ dir \in {"x", "y", "xy", "yx"})

\* GantryTwistUtility._generate_grid_points(min_x, max_x, min_y, max_y, grid_size),
\* where it returns, m being self.mode and dir self.sampling_direction
GantryPoints(m, dir, mnx, mxx, mny, mxy, n) ==
    LET X(i) == calc_pos(mnx, mxx, i, n)
        Y(i) == calc_pos(mny, mxy, i, n)
        outer(k) == (k - 1) \div n
        inner(k) == (k - 1) % n
    IN  IF m = 1
        THEN [k \in 1..n |-> <<X(k - 1), beacon_safe_home_pos[2]>>]
        ELSE IF m = 0
        THEN CASE dir = "x"  -> [k \in 1..(n * n) |-> <<X(inner(k)), Y(outer(k))>>]
               [] dir = "y"  -> [k \in 1..(n * n) |-> <<X(outer(k)), Y(inner(k))>>]
               [] dir = "xy" -> [k \in 1..(n * n) |->
                                    <<X(SerpIdx(outer(k), inner(k), n)), Y(outer(k))>>]
               [] dir = "yx" -> [k \in 1..(n * n) |->
                                    <<X(outer(k)), Y(SerpIdx(outer(k), inner(k), n))>>]
               [] OTHER -> <<>>
        ELSE <<>>

(* ---- the compensation writer ---- *)
\* "{:.6f}".format(x): a reading in 1/10000 um rounded to 1/1000 um (6 decimals of a mm)
Fmt6(x) == IF x >= 0 THEN (x + 5) \div 10 ELSE 0 - ((5 - x) \div 10)

\* ', '.join(["{:.6f}".format(x) for x in new_z_compensations])
values_as_str(zs) == [k \in 1..Len(zs) |-> Fmt6(zs[k])]

\* [data['delta'] for data in self.collected_data]
Deltas(cd) == [k \in 1..Len(cd) |-> cd[k].delta]

XKeys == <<"z_compensations", "compensation_start_x", "compensation_end_x">>
\* the Y-axis values staged under the key of the X-axis values
YKeysShared == <<"z_compensations", "compensation_start_y", "compensation_end_y">>
YKeys == <<"new_zy_compensations", "compensation_start_y", "compensation_end_y">>
XAttrs == <<"z_compensations", "compensation_start_x", "compensation_end_x">>
YAttrs == <<"zy_compensations", "compensation_start_y", "compensation_end_y">>
Range(s) == {s[k] : k \in 1..Len(s)}
Keys == Range(XKeys) \cup Range(YKeys)
Attrs == Range(XAttrs) \cup Range(YAttrs)

(* ---- configurations ---- *)
\* self of BeaconAxisTwistCompensation after __init__, with the fixed coordinates
\* cx, cy (calibrate_x and calibrate_y have no default: Absent when not configured)
BeaconConfig(cx, cy) ==
    [min_x |-> min_x, max_x |-> max_x, min_y |-> min_y, max_y |-> max_y,
     calibrate_x |-> cx, calibrate_y |-> cy]
\* sampling_direction is any text of the configuration file
Directions == {sampling_direction, "diagonal"}
\* the configurations the objects are constructed from
Configs ==
    {[beacon |-> BeaconConfig(c[1], c[2]), sampling_direction |-> d] :
        c \in {<<calibrate_x, calibrate_y>>, <<Absent, Absent>>}, d \in Directions}
DefaultConfig ==
    [beacon |-> BeaconConfig(calibrate_x, calibrate_y),
     sampling_direction |-> sampling_direction]

VARIABLES
    config,            \* what __init__ read from the configuration file
    call,              \* the last direct call of a planner or of the classifier
    inv,               \* the invocations: position and locals of each command handler
    test_running,      \* self.test_running of each of the two objects
    collected_data,    \* self.collected_data of each of the two objects
    mode,              \* GantryTwistUtility.mode
    meta,              \* GantryTwistUtility.meta (the run counts and the mode name)
    last_offset_result,\* beacon.last_offset_result: <<>> or <<result>>
    staged,            \* configfile: per key <<>> or <<value staged by configfile.set>>
    runtime,           \* axis_twist_compensation: per attribute <<>> or <<value>>
    graph_threads,     \* the background graph threads and their data snapshots
    faults             \* abnormal outcomes injected so far

vars == <<config, call, inv, test_running, collected_data, mode, meta, last_offset_result,
          staged, runtime, graph_threads, faults>>

\* positions at which a handler runs (is not blocked in a call)
InternalPcs == {"report", "finally", "apply", "post"}
\* the blocking calls of one point of the sampling loop
PointPcs == {"move", "wait_move", "settle", "compare", "wait_probe", "point_dwell"}
\* positions after the sampling loop and its finally clause
AfterLoopPcs == {"apply", "return", "heaters_off", "post", "done"}

IdleInv ==
    [cmd |-> None, pc |-> "idle", status |-> None, axis |-> None, temps |-> <<0, 0>>,
     step |-> 0, points |-> <<>>, idx |-> 0, completed |-> 0, failed |-> 0,
     exc |-> FALSE,
     \* history of the invocation, not program state
     homed |-> FALSE,     \* issued G28
     rejected |-> FALSE,  \* ended by the "already running" error
     ran |-> FALSE,       \* entered the sampling loop
     exit |-> None,       \* how the loop ended
     issued |-> 0,        \* index of the last point a move was issued for
     probed |-> 0,        \* index of the last point a compare was called for
     raised |-> 0,        \* errors raised inside the per-point try
     last_error |-> 0,    \* the last of them
     fatal_at |-> 0,      \* index of the point whose error was classified fatal
     cancel_at |-> 0,     \* index of the point in flight when the operator cancelled
     appended |-> 0,      \* samples appended
     before |-> <<>>,     \* staged and runtime tables when the command was accepted
     wrote |-> FALSE,     \* called the compensation writer
     handed |-> FALSE]    \* started a graph thread

\* nothing has been called directly
NoCall == [fn |-> None]

Init ==
    /\ config \in Configs
    /\ call = NoCall
    /\ inv = [i \in Invs |-> IdleInv]
    /\ test_running = [o \in Objs |-> FALSE]
    /\ collected_data = [o \in Objs |-> <<>>]
    /\ mode = config_mode
    /\ meta = [mode |-> None, bed_temp |-> Absent, hotend_temp |-> Absent,
               points_completed |-> Absent, total_points |-> Absent,
               points_failed |-> Absent]
    /\ last_offset_result = <<>>
    /\ staged = [k \in Keys |-> <<>>]
    /\ runtime = [a \in Attrs |-> <<>>]
    /\ graph_threads = <<>>
    /\ faults = 0

(* ---- scheduling ---- *)
\* no handler is running: every invocation is blocked in a call, or has not
\* started, or has ended
NoneRunning == \A j \in Invs : inv[j].pc \notin InternalPcs
\* invocation i may take a step
MayStep(i) == \A j \in Invs \ {i} : inv[j].pc \notin InternalPcs
\* no command is being processed
Quiescent == \A j \in Invs : inv[j].pc \in {"idle", "done"}
\* the next unused invocation
Fresh(i) == inv[i].pc = "idle" /\ \A j \in 1..(i - 1) : inv[j].pc # "idle"

\* an abnormal outcome is drawn only while the budget lasts
Inject(abnormal) ==
    /\ abnormal => faults < MaxFaults
    /\ faults' = IF abnormal THEN faults + 1 ELSE faults

SetInv(i, r) == inv' = [inv EXCEPT ![i] = r]

\* invocation i starts as r; the history of the invocations that have ended
\* is kept until then
StartInv(i, r) ==
    inv' = [j \in Invs |-> IF j = i THEN r
                           ELSE IF inv[j].pc = "done" THEN [IdleInv EXCEPT !.pc = "done"]
                           ELSE inv[j]]

(* ---- pieces of the handlers ---- *)
\* except Exception as e: self.test_running = False; raise gcmd.error(...)
CmdExcept(i, r) ==
    /\ SetInv(i, [r EXCEPT !.pc = "done", !.status = "error"])
    /\ test_running' = [test_running EXCEPT ![r.cmd] = FALSE]

\* the loop head without its look at the flag
LoopTopNoCancel(r, tr) ==
    IF r.idx > Len(r.points) THEN [r EXCEPT !.pc = "finally", !.exit = "exhausted"]
    ELSE [r EXCEPT !.pc = "report"]

\* head of  for idx, (x_pos, y_pos) in enumerate(points, 1)  with r.idx the
\* next index and tr the value of self.test_running
LoopTop(r, tr) ==
    IF r.idx > Len(r.points) THEN [r EXCEPT !.pc = "finally", !.exit = "exhausted"]
    ELSE IF ~tr THEN [r EXCEPT !.pc = "finally", !.exit = "cancelled"]
    ELSE [r EXCEPT !.pc = "report"]

\* the handler counting the fatal error as a failed point before it aborts
PointExceptCountsFatal(i, r, e) ==
    LET re == [r EXCEPT !.raised = @ + 1, !.last_error = e]
    IN  IF Fatal(e)
        THEN /\ test_running' = [test_running EXCEPT ![r.cmd] = FALSE]
             /\ SetInv(i, [re EXCEPT !.pc = "finally", !.exc = TRUE, !.exit = "fatal",
                                     !.fatal_at = r.idx, !.failed = @ + 1])
        ELSE /\ UNCHANGED test_running
             /\ SetInv(i, LoopTop([re EXCEPT !.failed = @ + 1, !.idx = @ + 1],
                                  test_running[r.cmd]))

\* the handler aborting the run on every error
PointExceptAlwaysAborts(i, r, e) ==
    LET re == [r EXCEPT !.raised = @ + 1, !.last_error = e]
    IN  /\ test_running' = [test_running EXCEPT ![r.cmd] = FALSE]
        /\ SetInv(i, [re EXCEPT !.pc = "finally", !.exc = TRUE, !.exit = "fatal",
                                !.fatal_at = r.idx])

\* the handler not counting the failed point
PointExceptForgetsFailed(i, r, e) ==
    LET re == [r EXCEPT !.raised = @ + 1, !.last_error = e]
    IN  IF Fatal(e)
        THEN /\ test_running' = [test_running EXCEPT ![r.cmd] = FALSE]
             /\ SetInv(i, [re EXCEPT !.pc = "finally", !.exc = TRUE, !.exit = "fatal",
                                     !.fatal_at = r.idx])
        ELSE /\ UNCHANGED test_running
             /\ SetInv(i, LoopTop([re EXCEPT !.idx = @ + 1], test_running[r.cmd]))

\* except Exception as e  inside the loop, e the error raised at point r.idx
PointExcept(i, r, e) ==
    LET re == [r EXCEPT !.raised = @ + 1, !.last_error = e]
    IN  IF Fatal(e)
        THEN /\ test_running' = [test_running EXCEPT ![r.cmd] = FALSE]
             /\ SetInv(i, [re EXCEPT !.pc = "finally", !.exc = TRUE, !.exit = "fatal",
                                     !.fatal_at = r.idx])
        ELSE /\ UNCHANGED test_running
             /\ SetInv(i, LoopTop([re EXCEPT !.failed = @ + 1, !.idx = @ + 1],
                                  test_running[r.cmd]))

\* _run_grid_test up to the report of the first point
StartGridTest(i, r) ==
    IF r.cmd = "gantry" /\ ~GantryPlanValid(mode, config.sampling_direction)
    THEN CmdExcept(i, r)
    ELSE LET pts == IF r.cmd = "beacon"
                    THEN BeaconPoints(config.beacon, r.axis, SAMPLE_COUNT)
                    ELSE GantryPoints(mode, config.sampling_direction,
                                      g_min_x, g_max_x, g_min_y, g_max_y, grid_size)
         IN  /\ test_running' = [test_running EXCEPT ![r.cmd] = TRUE]
             /\ SetInv(i, LoopTop([r EXCEPT !.points = pts, !.idx = 1, !.completed = 0,
                                            !.failed = 0, !.ran = TRUE], TRUE))

\* the three configfile.set calls, of which set number sf raises (0: none does)
StageTable(st, keys, payload, sf) ==
    [k \in Keys |->
        IF \E j \in 1..3 : keys[j] = k /\ (sf = 0 \/ j < sf)
        THEN <<payload[CHOOSE j \in 1..3 : keys[j] = k]>>
        ELSE st[k]]

\* the three attribute assignments
SetRuntime(rt, attrs, table) ==
    [a \in Attrs |->
        IF \E j \in 1..3 : attrs[j] = a
        THEN <<table[CHOOSE j \in 1..3 : attrs[j] = a]>>
        ELSE rt[a]]

\* _apply_x_compensation, _apply_y_compensation, AxisTwistCompUtility.apply_compensation
ApplyCompensation(keys, attrs, zs, start, end, sf) ==
    /\ staged' = StageTable(staged, keys, <<values_as_str(zs), start, end>>, sf)
    /\ runtime' = IF sf = 0 THEN SetRuntime(runtime, attrs, <<zs, start, end>>)
                  ELSE runtime

\* the script calls of _heat_and_wait
HeatScripts(t) ==
    (IF t[1] > 0 THEN <<"M140">> ELSE <<>>) \o (IF t[2] > 0 THEN <<"M104">> ELSE <<>>)
    \o (IF t[1] > 0 THEN <<"M190">> ELSE <<>>) \o (IF t[2] > 0 THEN <<"M109">> ELSE <<>>)
    \o <<"G4">>

\* the data of the earlier run left in place
keep_collected_data(o) == UNCHANGED collected_data

\* self.collected_data = []  of an accepted invocation
clear_collected_data(o) == collected_data' = [collected_data EXCEPT ![o] = <<>>]

(* ---- BEACON_AXIS_TWIST_COMPENSATION ---- *)
InvokeBeacon(i, ax) ==
    /\ Fresh(i)
    /\ NoneRunning
    /\ IF test_running["beacon"]
       THEN /\ StartInv(i, [IdleInv EXCEPT !.cmd = "beacon", !.axis = ax, !.pc = "done",
                                         !.status = "error", !.rejected = TRUE])
            /\ UNCHANGED collected_data
       ELSE /\ clear_collected_data("beacon")
            /\ StartInv(i, [IdleInv EXCEPT !.cmd = "beacon", !.axis = ax, !.pc = "home",
                             !.step = 1, !.homed = TRUE,
                             !.before = <<[staged |-> staged, runtime |-> runtime]>>])
    /\ UNCHANGED <<config, call, test_running, mode, meta, last_offset_result, staged, runtime,
                   graph_threads, faults>>

\* the table is computed and applied after the loop
ApplyBeacon(i, sf) ==
    LET r == inv[i]
        zs == Deltas(collected_data["beacon"])
    IN  /\ r.pc = "apply"
        /\ Inject(sf # 0)
        /\ IF r.axis = "X"
           THEN ApplyCompensation(XKeys, XAttrs, zs, config.beacon.min_x,
                                  config.beacon.max_x, sf)
           ELSE ApplyCompensation(YKeys, YAttrs, zs, config.beacon.min_y,
                                  config.beacon.max_y, sf)
        /\ IF sf = 0
           THEN /\ SetInv(i, [r EXCEPT !.pc = "done", !.status = "ok", !.wrote = TRUE])
                /\ UNCHANGED test_running
           ELSE CmdExcept(i, [r EXCEPT !.wrote = TRUE])
        /\ UNCHANGED <<config, call, collected_data, mode, meta, last_offset_result, graph_threads>>

(* ---- GANTRY_TWIST_UTILITY ---- *)
InvokeGantry(i, m, t) ==
    LET newmode == IF m = Absent THEN mode ELSE m
        r0 == [IdleInv EXCEPT !.cmd = "gantry", !.temps = t]
    IN  /\ Fresh(i)
        /\ NoneRunning
        /\ mode' = newmode
        /\ IF newmode \notin {0, 1}
           THEN /\ StartInv(i, [r0 EXCEPT !.pc = "done", !.status = "ok"])
                /\ UNCHANGED <<meta, collected_data>>
           ELSE /\ meta' = [meta EXCEPT !.bed_temp = t[1], !.hotend_temp = t[2],
                                        !.mode = IF newmode = 0 THEN "Analysis"
                                                 ELSE "Compensation"]
                /\ IF test_running["gantry"]
                   THEN /\ StartInv(i, [r0 EXCEPT !.pc = "done", !.status = "error",
                                                !.rejected = TRUE])
                        /\ UNCHANGED collected_data
                   ELSE /\ clear_collected_data("gantry")
                        /\ StartInv(i, [r0 EXCEPT
                              !.pc = IF t[1] <= 0 /\ t[2] <= 0 THEN "home" ELSE "heat",
                              !.homed = (t[1] <= 0 /\ t[2] <= 0),
                              !.step = 1,
                              !.before = <<[staged |-> staged, runtime |-> runtime]>>])
        /\ UNCHANGED <<config, call, test_running, last_offset_result, staged, runtime,
                       graph_threads, faults>>

\* a script call of _heat_and_wait returns or raises
Heat(i, out) ==
    LET r == inv[i]
    IN  /\ r.pc = "heat"
        /\ MayStep(i)
        /\ Inject(out # 0)
        /\ IF out # 0 THEN CmdExcept(i, r)
           ELSE /\ UNCHANGED test_running
                /\ IF r.step < Len(HeatScripts(r.temps))
                   THEN SetInv(i, [r EXCEPT !.step = @ + 1])
                   ELSE SetInv(i, [r EXCEPT !.pc = "home", !.step = 1, !.homed = TRUE])
        /\ UNCHANGED <<config, call, collected_data, mode, meta, last_offset_result, staged, runtime,
                       graph_threads>>

\* a line of pre_test_gcode is done with (run, or failed with a warning)
NextPreTestLine(i, r) ==
    IF r.step < Len(pre_test_gcode)
    THEN /\ SetInv(i, [r EXCEPT !.pc = "pretest_script", !.step = @ + 1])
         /\ UNCHANGED test_running
    ELSE StartGridTest(i, r)

\* except Exception as e  of _run_pre_test_calibration
PreTestExcept(i, r, e) ==
    IF Fatal(e) THEN CmdExcept(i, r) ELSE NextPreTestLine(i, r)

\* run_script_from_command(line) of _run_pre_test_calibration returns or raises
PreTestScript(i, out) ==
    LET r == inv[i]
    IN  /\ r.pc = "pretest_script"
        /\ MayStep(i)
        /\ Inject(out # 0)
        /\ IF out # 0 THEN PreTestExcept(i, r, out)
           ELSE /\ SetInv(i, [r EXCEPT !.pc = "pretest_wait"])
                /\ UNCHANGED test_running
        /\ UNCHANGED <<config, call, collected_data, mode, meta, last_offset_result, staged, runtime,
                       graph_threads>>

\* toolhead.wait_moves() of _run_pre_test_calibration returns or raises
PreTestWait(i, out) ==
    LET r == inv[i]
    IN  /\ r.pc = "pretest_wait"
        /\ MayStep(i)
        /\ Inject(out # 0)
        /\ IF out # 0 THEN PreTestExcept(i, r, out) ELSE NextPreTestLine(i, r)
        /\ UNCHANGED <<config, call, collected_data, mode, meta, last_offset_result, staged, runtime,
                       graph_threads>>

(* ---- both commands: homing ---- *)
\* G28 (step 1) or G90 (step 2) returns or raises
Home(i, out) ==
    LET r == inv[i]
    IN  /\ r.pc = "home"
        /\ MayStep(i)
        /\ Inject(out # 0)
        /\ IF out # 0 THEN CmdExcept(i, r)
           ELSE IF r.step = 1
           THEN /\ SetInv(i, [r EXCEPT !.step = 2])
                /\ UNCHANGED test_running
           ELSE IF r.cmd = "gantry" /\ Len(pre_test_gcode) > 0
           THEN /\ SetInv(i, [r EXCEPT !.pc = "pretest_script", !.step = 1])
                /\ UNCHANGED test_running
           ELSE StartGridTest(i, r)
        /\ UNCHANGED <<config, call, collected_data, mode, meta, last_offset_result, staged, runtime,
                       graph_threads>>

(* ---- both commands: the sampling loop of _run_grid_test ---- *)
\* gcmd.respond_info("Point idx/total ...") and the G1 move that follows it;
\* the text cannot be formatted when a coordinate of the point is None
Report(i, ok) ==
    LET r == inv[i]
        unformattable == Absent \in Range(r.points[r.idx])
    IN  /\ r.pc = "report"
        /\ unformattable => ~ok
        /\ Inject(~ok /\ ~unformattable)
        /\ IF ok THEN SetInv(i, [r EXCEPT !.pc = "move", !.issued = r.idx])
           ELSE SetInv(i, [r EXCEPT !.pc = "finally", !.exc = TRUE, !.exit = "exception"])
        /\ UNCHANGED <<config, call, test_running, collected_data, mode, meta, last_offset_result,
                       staged, runtime, graph_threads>>

\* a blocking call of the point at position "from" returns, and the handler
\* blocks in the next call at position "to", or it raises
PointCall(i, out, from, to) ==
    LET r == inv[i]
    IN  /\ r.pc = from
        /\ MayStep(i)
        /\ Inject(out # 0)
        /\ IF out # 0 THEN PointExcept(i, r, out)
           ELSE /\ SetInv(i, [r EXCEPT !.pc = to,
                                       !.probed = IF to = "compare" THEN r.idx ELSE @])
                /\ UNCHANGED test_running
        /\ UNCHANGED <<config, call, collected_data, mode, meta, last_offset_result, staged, runtime,
                       graph_threads>>

\* run_script_from_command("G1 ...")
Move(i, out) == PointCall(i, out, "move", "wait_move")
\* toolhead.wait_moves()
WaitMove(i, out) == PointCall(i, out, "wait_move", "settle")
\* the settle dwell followed by the wait for the probe, without the compare
SettleSkipsCompare(i, out) == PointCall(i, out, "settle", "wait_probe")
\* toolhead.dwell(settle_delay), then the compare is called
Settle(i, out) == PointCall(i, out, "settle", "compare")

\* beacon.cmd_BEACON_OFFSET_COMPARE: raises, or returns with a result in
\* last_offset_result (got) or with none
Compare(i, out, got) ==
    LET r == inv[i]
    IN  /\ r.pc = "compare"
        /\ MayStep(i)
        /\ out # 0 => got
        /\ Inject(out # 0 \/ ~got)
        /\ last_offset_result' = IF out # 0 THEN last_offset_result
                                 ELSE IF got THEN <<ProbeResult(r.points[r.idx])>>
                                 ELSE <<>>
        /\ IF out # 0 THEN PointExcept(i, r, out)
           ELSE /\ SetInv(i, [r EXCEPT !.pc = "wait_probe"])
                /\ UNCHANGED test_running
        /\ UNCHANGED <<config, call, collected_data, mode, meta, staged, runtime, graph_threads>>

\* the sample built from beacon.last_offset_result
data_point(r, result) ==
    [grid_index |-> r.idx, x |-> r.points[r.idx][1], y |-> r.points[r.idx][2],
     contact_z |-> result.contact_z, proximity_z |-> result.contact_z - result.delta,
     delta |-> result.delta]

\* the missing result counted as a failed point, the loop going on
NoResultCountsFailed(i, r) ==
    SetInv(i, LoopTop([r EXCEPT !.failed = @ + 1, !.idx = @ + 1], test_running[r.cmd]))

\* else: gcmd.respond_info("Warning: No offset result data available. Exiting...");
\* break
NoResult(i, r) == SetInv(i, [r EXCEPT !.pc = "finally", !.exit = "noresult"])

\* toolhead.wait_moves() after the compare, then the collection of the sample
WaitProbe(i, out) ==
    LET r == inv[i]
    IN  /\ r.pc = "wait_probe"
        /\ MayStep(i)
        /\ Inject(out # 0)
        /\ IF out # 0
           THEN /\ PointExcept(i, r, out)
                /\ UNCHANGED collected_data
           ELSE /\ UNCHANGED test_running
                /\ IF last_offset_result # <<>>
                   THEN /\ collected_data' = [collected_data EXCEPT ![r.cmd] =
                               Append(@, data_point(r, last_offset_result[1]))]
                        /\ SetInv(i, [r EXCEPT !.pc = "point_dwell", !.appended = @ + 1])
                   ELSE /\ UNCHANGED collected_data
                        /\ NoResult(i, r)
        /\ UNCHANGED <<config, call, mode, meta, last_offset_result, staged, runtime, graph_threads>>

\* toolhead.dwell(point_delay), completed += 1, and the head of the next iteration
PointDwell(i, out) ==
    LET r == inv[i]
    IN  /\ r.pc = "point_dwell"
        /\ MayStep(i)
        /\ Inject(out # 0)
        /\ IF out # 0 THEN PointExcept(i, r, out)
           ELSE /\ SetInv(i, LoopTop([r EXCEPT !.completed = @ + 1, !.idx = @ + 1],
                                     test_running[r.cmd]))
                /\ UNCHANGED test_running
        /\ UNCHANGED <<config, call, collected_data, mode, meta, last_offset_result, staged, runtime,
                       graph_threads>>

\* the loop without the reset of the flag in its finally clause
FinallyKeepsFlag(i) ==
    LET r == inv[i]
    IN  /\ r.pc = "finally"
        /\ IF r.exc
           THEN /\ CmdExcept(i, r)
                /\ UNCHANGED meta
           ELSE /\ UNCHANGED test_running
                /\ IF r.cmd = "beacon"
                   THEN /\ SetInv(i, [r EXCEPT !.pc = "apply"])
                        /\ UNCHANGED meta
                   ELSE /\ SetInv(i, [r EXCEPT !.pc = "return", !.step = 1])
                        /\ meta' = [meta EXCEPT !.points_completed = r.completed,
                                                !.total_points = Len(r.points),
                                                !.points_failed = r.failed]
        /\ UNCHANGED <<config, call, collected_data, mode, last_offset_result, staged, runtime,
                       graph_threads, faults>>

\* the loop with the raised error dropped after its finally clause
FinallySwallows(i) ==
    LET r == inv[i]
    IN  /\ r.pc = "finally"
        /\ test_running' = [test_running EXCEPT ![r.cmd] = FALSE]
        /\ IF r.cmd = "beacon"
           THEN /\ SetInv(i, [r EXCEPT !.pc = "apply", !.exc = FALSE])
                /\ UNCHANGED meta
           ELSE /\ SetInv(i, [r EXCEPT !.pc = "return", !.step = 1, !.exc = FALSE])
                /\ meta' = [meta EXCEPT !.points_completed = r.completed,
                                        !.total_points = Len(r.points),
                                        !.points_failed = r.failed]
        /\ UNCHANGED <<config, call, collected_data, mode, last_offset_result, staged, runtime,
                       graph_threads, faults>>

\* finally: self.test_running = False, then what follows the loop
Finally(i) ==
    LET r == inv[i]
    IN  /\ r.pc = "finally"
        /\ IF r.exc
           THEN /\ CmdExcept(i, r)
                /\ UNCHANGED meta
           ELSE /\ test_running' = [test_running EXCEPT ![r.cmd] = FALSE]
                /\ IF r.cmd = "beacon"
                   THEN /\ SetInv(i, [r EXCEPT !.pc = "apply"])
                        /\ UNCHANGED meta
                   ELSE /\ SetInv(i, [r EXCEPT !.pc = "return", !.step = 1])
                        /\ meta' = [meta EXCEPT !.points_completed = r.completed,
                                                !.total_points = Len(r.points),
                                                !.points_failed = r.failed]
        /\ UNCHANGED <<config, call, collected_data, mode, last_offset_result, staged, runtime,
                       graph_threads, faults>>

(* ---- GANTRY_TWIST_UTILITY after the loop ---- *)
\* G1 Z10 (step 1), G1 X Y (step 2) or wait_moves (step 3) returns or raises
Return(i, out) ==
    LET r == inv[i]
    IN  /\ r.pc = "return"
        /\ MayStep(i)
        /\ Inject(out # 0)
        /\ IF out # 0 THEN CmdExcept(i, r)
           ELSE /\ UNCHANGED test_running
                /\ IF r.step < 3 THEN SetInv(i, [r EXCEPT !.step = @ + 1])
                   ELSE IF r.temps[1] > 0 \/ r.temps[2] > 0
                   THEN SetInv(i, [r EXCEPT !.pc = "heaters_off", !.step = 1])
                   ELSE SetInv(i, [r EXCEPT !.pc = "post"])
        /\ UNCHANGED <<config, call, collected_data, mode, meta, last_offset_result, staged, runtime,
                       graph_threads>>

\* M104 S0 (step 1) or M140 S0 (step 2) returns or raises
HeatersOff(i, out) ==
    LET r == inv[i]
    IN  /\ r.pc = "heaters_off"
        /\ MayStep(i)
        /\ Inject(out # 0)
        /\ IF out # 0 THEN CmdExcept(i, r)
           ELSE /\ UNCHANGED test_running
                /\ IF r.step < 2 THEN SetInv(i, [r EXCEPT !.step = @ + 1])
                   ELSE SetInv(i, [r EXCEPT !.pc = "post"])
        /\ UNCHANGED <<config, call, collected_data, mode, meta, last_offset_result, staged, runtime,
                       graph_threads>>

\* the fields of self.meta that GraphGenerator._compose_subtitle reads (grid_size
\* and bounds are the same for every run here)
SubtitleMeta(m) ==
    [bed_temp |-> m.bed_temp, hotend_temp |-> m.hotend_temp,
     points_completed |-> m.points_completed, total_points |-> m.total_points]

\* a graph thread of invocation i with its snapshot of the data
GraphThread(i, r, data_snapshot) ==
    [by |-> i, data_snapshot |-> data_snapshot, pc |-> "started", seen |-> <<>>,
     \* history: the samples the run appended, and the metadata at this time
     appended |-> r.appended, meta |-> SubtitleMeta(meta)]

\* the thread started on the live list, which is left as it is
StartGraphThreadKeepsData(i, r) ==
    /\ graph_threads' = Append(graph_threads, GraphThread(i, r, collected_data["gantry"]))
    /\ UNCHANGED collected_data

\* data_snapshot = copy.deepcopy(self.collected_data); self.collected_data = [];
\* threading.Thread(target=self._generate_graphs_background, ...).start()
StartGraphThread(i, r) ==
    /\ graph_threads' = Append(graph_threads, GraphThread(i, r, collected_data["gantry"]))
    /\ collected_data' = [collected_data EXCEPT !["gantry"] = <<>>]

\* if self.mode == 1: apply the table; elif self.mode == 0: hand the data to a
\* graph thread; else: report the unknown mode
Post(i, sf) ==
    LET r == inv[i]
        zs == Deltas(collected_data["gantry"])
    IN  /\ r.pc = "post"
        /\ mode # 1 => sf = 0
        /\ Inject(sf # 0)
        /\ IF mode = 1
           THEN /\ ApplyCompensation(XKeys, XAttrs, zs, g_min_x, g_max_x, sf)
                /\ IF sf = 0
                   THEN /\ SetInv(i, [r EXCEPT !.pc = "done", !.status = "ok",
                                               !.wrote = TRUE])
                        /\ UNCHANGED test_running
                   ELSE CmdExcept(i, [r EXCEPT !.wrote = TRUE])
                /\ UNCHANGED <<collected_data, graph_threads>>
           ELSE IF mode = 0
           THEN /\ StartGraphThread(i, r)
                /\ SetInv(i, [r EXCEPT !.pc = "done", !.status = "ok", !.handed = TRUE])
                /\ UNCHANGED <<test_running, staged, runtime>>
           ELSE /\ SetInv(i, [r EXCEPT !.pc = "done", !.status = "ok"])
                /\ UNCHANGED <<test_running, staged, runtime, collected_data,
                               graph_threads>>
        /\ UNCHANGED <<config, call, mode, meta, last_offset_result>>

(* ---- the graph thread ---- *)
\* _generate_graphs_background: GraphGenerator(..., data_snapshot, meta=self.meta)
\* .plot_analysis() returns at once with fewer than two samples, and otherwise
\* plots the snapshot under a subtitle composed from the metadata
GenerateGraphs(t) ==
    LET th == graph_threads[t]
    IN  /\ th.pc = "started"
        /\ graph_threads' = [graph_threads EXCEPT ![t] =
              [th EXCEPT !.pc = "done",
                         !.seen = IF Len(th.data_snapshot) < 2 THEN <<>>
                                  ELSE <<[data |-> th.data_snapshot,
                                          meta |-> SubtitleMeta(meta)]>>]]
        /\ UNCHANGED <<config, call, inv, test_running, collected_data, mode, meta,
                       last_offset_result, staged, runtime, faults>>

(* ---- the operator ---- *)
\* the operator cancels the run of object o: the run-in-progress flag is the
\* cancellation flag the loop looks at
Cancel(o) ==
    /\ NoneRunning
    /\ test_running[o]
    /\ Inject(TRUE)
    /\ test_running' = [test_running EXCEPT ![o] = FALSE]
    /\ inv' = [j \in Invs |->
                  IF inv[j].cmd = o /\ inv[j].pc \in PointPcs /\ inv[j].cancel_at = 0
                  THEN [inv[j] EXCEPT !.cancel_at = inv[j].idx]
                  ELSE inv[j]]
    /\ UNCHANGED <<config, call, collected_data, mode, meta, last_offset_result, staged, runtime,
                   graph_threads>>

(* ---- specifications ---- *)
\* the steps of the invocations that have started
Steps ==
    \E i \in Invs :
        \/ \E out \in Outcomes :
              \/ Heat(i, out)
              \/ Home(i, out)
              \/ PreTestScript(i, out)
              \/ PreTestWait(i, out)
              \/ Move(i, out)
              \/ WaitMove(i, out)
              \/ Settle(i, out)
              \/ \E got \in BOOLEAN : Compare(i, out, got)
              \/ WaitProbe(i, out)
              \/ PointDwell(i, out)
              \/ Return(i, out)
              \/ HeatersOff(i, out)
        \/ \E ok \in BOOLEAN : Report(i, ok)
        \/ Finally(i)
        \/ \E sf \in 0..3 : ApplyBeacon(i, sf)
        \/ \E sf \in 0..3 : Post(i, sf)

\* the graph threads run beside the host's scheduler
Threads == \E t \in 1..MaxInv : t <= Len(graph_threads) /\ GenerateGraphs(t)

Operator == \E o \in Objs : Cancel(o)

\* the host processes one command at a time
SerialInvoke ==
    /\ Quiescent
    /\ \E i \in Invs :
          \/ \E ax \in AxisParams : InvokeBeacon(i, ax)
          \/ \E m \in ModeParams, t \in Temps : InvokeGantry(i, m, t)

Next == SerialInvoke \/ Steps \/ Threads \/ Operator

Spec == Init /\ [][Next]_vars

\* A command may be invoked while another invocation is blocked in a call.
\* Here every call returns normally, nothing is heated, and the configuration
\* is complete and valid.
ReentrantInvoke ==
    \E i \in Invs :
        \/ \E ax \in AxisParams : InvokeBeacon(i, ax)
        \/ \E m \in ModeParams : InvokeGantry(i, m, <<0, 0>>)

NormalSteps ==
    \E i \in Invs :
        \/ Home(i, 0)
        \/ PreTestScript(i, 0)
        \/ PreTestWait(i, 0)
        \/ Report(i, TRUE)
        \/ Move(i, 0)
        \/ WaitMove(i, 0)
        \/ Settle(i, 0)
        \/ Compare(i, 0, TRUE)
        \/ WaitProbe(i, 0)
        \/ PointDwell(i, 0)
        \/ Finally(i)
        \/ ApplyBeacon(i, 0)
        \/ Return(i, 0)
        \/ Post(i, 0)

NextReentrant == ReentrantInvoke \/ NormalSteps

\* the configuration is complete and valid
InitReentrant == Init /\ config = DefaultConfig

SpecReentrant == InitReentrant /\ [][NextReentrant]_vars

\* The planners and the classifier called directly, on arguments of their own.
PlanMins == {0, 22000}
PlanMaxs == {10000, 190000}
PlanSizes == 1..MaxSize
PlanModes == {0, 1, 2}
PlanDirections == {"x", "y", "xy", "yx", "diagonal"}
\* texts of errors, in several letter cases
ClassifierTexts ==
    ErrorTexts \o
    << <<"m","c","u"," ","s","h","u","t","d","o","w","n">>,
      <<"M","C","U"," ","S","H","U","T","D","O","W","N">>,
      <<"T","i","m","e","r"," ","t","o","o"," ","c","l","o","s","e">>,
      <<"L","o","s","t"," ","c","o","m","m","u","n","i","c","a","t","i","o","n"," ",
        "w","i","t","h"," ","M","C","U"," ","'","m","c","u","'">>,
      <<"H","e","a","t","e","r"," ","e","x","t","r","u","d","e","r"," ","n","o","t"," ",
        "h","e","a","t","i","n","g">>,
      <<"A","D","C"," ","o","u","t"," ","o","f"," ","r","a","n","g","e">>,
      <<"M","C","U"," ","s","h","u","t"," ","d","o","w","n">>,
      <<"M","o","v","e"," ","o","u","t"," ","o","f"," ","r","a","n","g","e">>,
      <<>> >>

UnchangedMachine ==
    UNCHANGED <<config, inv, test_running, collected_data, mode, meta,
                last_offset_result, staged, runtime, graph_threads, faults>>

\* BeaconAxisTwistCompensation._generate_grid_points(axis, sample_count)
PlanBeacon(self, axis, n) ==
    /\ call' = [fn |-> "BeaconPoints", self |-> self, axis |-> axis, size |-> n,
                raised |-> FALSE, points |-> BeaconPoints(self, axis, n)]
    /\ UnchangedMachine

\* GantryTwistUtility._generate_grid_points(min_x, max_x, min_y, max_y, grid_size)
\* with self.mode = m and self.sampling_direction = dir
PlanGantry(m, dir, b, n) ==
    /\ call' = [fn |-> "GantryPoints", mode |-> m, dir |-> dir, bounds |-> b, size |-> n,
                raised |-> ~GantryPlanValid(m, dir),
                points |-> GantryPoints(m, dir, b.min_x, b.max_x, b.min_y, b.max_y, n)]
    /\ UnchangedMachine

\* _is_fatal_klipper_error(err)
Classify(err) ==
    /\ call' = [fn |-> "_is_fatal_klipper_error", err |-> err,
                fatal |-> _is_fatal_klipper_error(err)]
    /\ UnchangedMachine

PlanBounds ==
    [min_x : PlanMins, max_x : PlanMaxs, min_y : PlanMins, max_y : PlanMaxs]
\* self of BeaconAxisTwistCompensation, with its bounds
PlanSelves ==
    [min_x : PlanMins, max_x : PlanMaxs, min_y : PlanMins, max_y : PlanMaxs,
     calibrate_x : {calibrate_x}, calibrate_y : {calibrate_y}]

NextCalls ==
    \/ \E self \in PlanSelves, ax \in AxisParams, n \in PlanSizes :
          PlanBeacon(self, ax, n)
    \/ \E m \in PlanModes, dir \in PlanDirections, b \in PlanBounds, n \in PlanSizes :
          PlanGantry(m, dir, b, n)
    \/ \E e \in 1..Len(ClassifierTexts) : Classify(ClassifierTexts[e])

InitCalls == Init /\ config = DefaultConfig

SpecCalls == InitCalls /\ [][NextCalls]_vars

(***************************************************************************)
(* The claims                                                              *)
(***************************************************************************)
\* the invocation is between its "already running" check and the end of its
\* sampling loop
InRun(i) == inv[i].pc \in {"heat", "home", "pretest_script", "pretest_wait", "report"}
                            \cup PointPcs

\* C1: at most one invocation of a calibration command is ever between its
\* "already running" check and the end of its sampling loop.
C1_OneRunAtATime ==
    \A i, j \in Invs : (i # j /\ InRun(i)) => ~InRun(j)

\* C2: once a run that set test_running has left its sampling loop, on any
\* exit path, and when its command has returned or raised, test_running of
\* its object is False.
C2_FlagClearedOnEveryExit ==
    \A i \in Invs :
        (inv[i].ran /\ inv[i].pc \in AfterLoopPcs) => ~test_running[inv[i].cmd]

\* a run whose point report raised, outside the per-point handler, has ended
C2_Witness ==
    \E i \in Invs :
        /\ inv[i].ran /\ inv[i].pc = "done" /\ inv[i].exit = "exception"
        /\ inv[i].status = "error" /\ inv[i].issued < Len(inv[i].points)

C4_FatalWritesNothing ==
    \A i \in Invs :
        inv[i].fatal_at > 0 =>
            /\ ~inv[i].wrote /\ ~inv[i].handed
            /\ staged = inv[i].before[1].staged
            /\ runtime = inv[i].before[1].runtime
            /\ \A t \in 1..Len(graph_threads) : graph_threads[t].by # i

\* a run aborted by a fatal fault has ended, after an earlier run wrote a table
C4_Witness ==
    \E i \in Invs :
        /\ inv[i].fatal_at > 0 /\ inv[i].pc = "done" /\ inv[i].appended > 0
        /\ staged["z_compensations"] # <<>>
        /\ runtime["z_compensations"] # <<>>

\* C5: an error raised at point k that is not classified fatal adds one to
\* failed, leaves completed alone, does not leave the loop as an error, and
\* the loop goes on to point k+1, or ends normally after the last point.
C5_RecoverableContinues ==
    [][\A i \in Invs :
          ( /\ inv[i].pc \in PointPcs
            /\ inv'[i].raised = inv[i].raised + 1
            /\ ~_is_fatal_klipper_error(ErrorTexts[inv'[i].last_error]) )
          => /\ inv'[i].failed = inv[i].failed + 1
             /\ inv'[i].completed = inv[i].completed
             /\ ~inv'[i].exc
             /\ inv'[i].status = None
             /\ inv'[i].idx = inv[i].idx + 1
             /\ IF inv[i].idx = Len(inv[i].points)
                THEN inv'[i].pc = "finally" /\ inv'[i].exit = "exhausted"
                ELSE IF test_running[inv[i].cmd]
                THEN inv'[i].pc = "report"
                ELSE inv'[i].pc = "finally" /\ inv'[i].exit = "cancelled"]_vars

\* the first point failed with a recoverable error and the second is attempted
C5_Witness ==
    \E i \in Invs :
        /\ inv[i].failed = 1 /\ inv[i].completed = 0 /\ inv[i].idx = 2
        /\ inv[i].last_error = 2 /\ inv[i].pc = "move"

Samples(i) == collected_data[inv[i].cmd]

\* C6: after the operator cancelled while point k was in flight, point k runs
\* to its end, no move and no compare is issued for a later point, the later
\* points are not counted, the samples are those appended up to point k, and
\* the flag stays cleared.
C6_CancelAtLoopHead ==
    \A i \in Invs :
        inv[i].cancel_at > 0 =>
            /\ inv[i].issued <= inv[i].cancel_at
            /\ inv[i].probed <= inv[i].cancel_at
            /\ inv[i].completed + inv[i].failed <= inv[i].cancel_at
            /\ ~test_running[inv[i].cmd]
            /\ ~inv[i].handed =>
                  /\ Len(Samples(i)) = inv[i].appended
                  /\ \A k \in 1..Len(Samples(i)) :
                        Samples(i)[k].grid_index <= inv[i].cancel_at
            /\ inv[i].exit = "cancelled" =>
                  /\ inv[i].idx = inv[i].cancel_at + 1
                  /\ inv[i].completed + inv[i].failed = inv[i].cancel_at

\* cancelled while point 2 was in flight: two samples, and the loop is over
C6_Witness ==
    \E i \in Invs :
        /\ inv[i].exit = "cancelled" /\ inv[i].cancel_at = 2
        /\ inv[i].completed = 2 /\ inv[i].issued = 2
        /\ Len(inv[i].points) > 2 /\ ~inv[i].handed /\ Len(Samples(i)) = 2

\* C7: a run that collected no sample never applies a table: the writer is
\* not called, and no values key or attribute receives an empty sequence.
C7_NoTableFromNoSamples ==
    /\ \A i \in Invs : inv[i].wrote => inv[i].appended > 0
    /\ staged["z_compensations"] # << <<>> >>
    /\ staged["new_zy_compensations"] # << <<>> >>
    /\ runtime["z_compensations"] # << <<>> >>
    /\ runtime["zy_compensations"] # << <<>> >>

\* C8: in single-axis or compensation use, a compare without a result makes
\* the command end in an error, and no table is written.
C8_NoResultIsFatal ==
    \A i \in Invs :
        ( /\ inv[i].exit = "noresult" /\ inv[i].pc = "done"
          /\ (inv[i].cmd = "beacon" \/ mode = 1) )
        => (inv[i].status = "error" /\ ~inv[i].wrote)

\* the values attribute the invocation writes
WrittenValues(i) ==
    IF inv[i].cmd = "beacon" /\ inv[i].axis = "Y" THEN runtime["zy_compensations"][1]
    ELSE runtime["z_compensations"][1]

\* C9: a written table has one value per planned point, the i-th value being
\* the delta measured at the i-th planned point.
C9_TableMatchesPlan ==
    \A i \in Invs :
        (inv[i].wrote /\ inv[i].status = "ok") =>
            /\ Len(WrittenValues(i)) = Len(inv[i].points)
            /\ \A k \in 1..Len(WrittenValues(i)) :
                  WrittenValues(i)[k] = ProbeResult(inv[i].points[k]).delta

\* the staged keys and the runtime attributes hold the same table, or none
Lockstep(keys, attrs) ==
    \/ \A j \in 1..3 : staged[keys[j]] = <<>> /\ runtime[attrs[j]] = <<>>
    \/ /\ \A j \in 1..3 : staged[keys[j]] # <<>> /\ runtime[attrs[j]] # <<>>
       /\ staged[keys[1]][1] = values_as_str(runtime[attrs[1]][1])
       /\ staged[keys[2]] = runtime[attrs[2]]
       /\ staged[keys[3]] = runtime[attrs[3]]

\* C10: the staged keys and the runtime attributes of an axis are updated
\* together or not at all, also when a write fails partway.
C10_StagedAndRuntimeInLockstep ==
    Lockstep(XKeys, XAttrs) /\ Lockstep(YKeys, YAttrs)

\* the invocation wrote an X-axis table / a Y-axis table, and its command returned
WroteX(i) ==
    /\ inv[i].wrote /\ inv[i].status = "ok"
    /\ (inv[i].cmd = "beacon" /\ inv[i].axis = "X") \/ inv[i].cmd = "gantry"
WroteY(i) ==
    /\ inv[i].wrote /\ inv[i].status = "ok"
    /\ inv[i].cmd = "beacon" /\ inv[i].axis = "Y"

\* C11: the bounds written with a table are the bounds the plan was generated
\* from: after an X-axis run the first and last planned X are the written
\* start and end bound, after a Y-axis run the first and last planned Y are.
C11_WrittenBoundsArePlanBounds ==
    \A i \in Invs :
        /\ WroteX(i) =>
              /\ inv[i].points[1][1] = runtime["compensation_start_x"][1]
              /\ inv[i].points[Len(inv[i].points)][1] = runtime["compensation_end_x"][1]
        /\ WroteY(i) =>
              /\ inv[i].points[1][2] = runtime["compensation_start_y"][1]
              /\ inv[i].points[Len(inv[i].points)][2] = runtime["compensation_end_y"][1]

\* the step is a write of an X-axis table / of a Y-axis table by a command
XWriteStep ==
    \E i \in Invs :
        /\ inv'[i].wrote /\ ~inv[i].wrote
        /\ (inv[i].cmd = "beacon" /\ inv[i].axis = "X") \/ inv[i].cmd = "gantry"
YWriteStep ==
    \E i \in Invs :
        /\ inv'[i].wrote /\ ~inv[i].wrote
        /\ inv[i].cmd = "beacon" /\ inv[i].axis # "X"

XNames == {"z_compensations", "compensation_start_x", "compensation_end_x"}
YNames == {"new_zy_compensations", "zy_compensations", "compensation_start_y",
           "compensation_end_y"}

\* C12: a write of an X-axis table, complete or failing partway, leaves every
\* Y-axis staged key and runtime attribute as it was, and a write of a Y-axis
\* table leaves every X-axis key and attribute as it was.
C12_AxisWritesAreDisjoint ==
    [][ /\ XWriteStep =>
              /\ \A k \in Keys : k \notin XNames => staged'[k] = staged[k]
              /\ \A a \in Attrs : a \notin XNames => runtime'[a] = runtime[a]
        /\ YWriteStep =>
              /\ \A k \in Keys : k \notin YNames => staged'[k] = staged[k]
              /\ \A a \in Attrs : a \notin YNames => runtime'[a] = runtime[a] ]_vars

\* a Y-axis table was written after an X-axis table of three values, which is
\* still there
C12_Witness ==
    \E i \in Invs :
        /\ WroteY(i) /\ inv[i].appended = 3
        /\ runtime["zy_compensations"] # <<>>
        /\ runtime["z_compensations"] # <<>> /\ Len(runtime["z_compensations"][1]) = 3
        /\ staged["z_compensations"] # <<>> /\ Len(staged["z_compensations"][1]) = 3
        /\ staged["compensation_start_x"] = <<min_x>>

\* the invocation asks for an axis, a mode or a sampling direction that is not
\* supported (the sampling direction is looked at in analysis mode)
Unsupported(i) ==
    \/ inv[i].cmd = "beacon" /\ inv[i].axis \notin {"X", "Y"}
    \/ inv[i].cmd = "gantry" /\ mode \notin {0, 1}
    \/ inv[i].cmd = "gantry" /\ mode = 0
          /\ config.sampling_direction \notin {"x", "y", "xy", "yx"}

\* C13: an invocation with an unsupported axis, mode or sampling direction
\* issues no homing, move or probe command, produces no plan, writes nothing,
\* and ends in an error, never successfully.
C13_UnsupportedValueIsAnError ==
    \A i \in Invs :
        Unsupported(i) =>
            /\ ~inv[i].homed /\ inv[i].issued = 0 /\ inv[i].probed = 0
            /\ inv[i].points = <<>>
            /\ ~inv[i].wrote
            /\ inv[i].pc = "done" => inv[i].status = "error"

\* the three ways in which the code departs from C13
C13_ModeCase ==
    \A i \in Invs :
        (inv[i].cmd = "gantry" /\ mode \notin {0, 1} /\ inv[i].pc = "done")
            => inv[i].status = "error"
C13_AxisCase ==
    \A i \in Invs :
        (inv[i].cmd = "beacon" /\ inv[i].axis \notin {"X", "Y"})
            => (inv[i].points = <<>> /\ ~inv[i].wrote)
C13_DirectionCase ==
    \A i \in Invs :
        (inv[i].cmd = "gantry" /\ mode = 0
            /\ config.sampling_direction \notin {"x", "y", "xy", "yx"})
            => ~inv[i].homed

\* the fixed coordinate a single-axis invocation needs is not configured
MissingCoordinate(i) ==
    /\ inv[i].cmd = "beacon"
    /\ \/ inv[i].axis = "X" /\ config.beacon.calibrate_y = Absent
       \/ inv[i].axis = "Y" /\ config.beacon.calibrate_x = Absent

\* C14: a single-axis invocation whose fixed coordinate is not configured
\* fails before the run starts: test_running is never set, no homing, move or
\* probe command is issued, and the command ends in an error.
C14_MissingCoordinateFailsEarly ==
    \A i \in Invs :
        MissingCoordinate(i) =>
            /\ ~inv[i].ran /\ ~test_running["beacon"]
            /\ ~inv[i].homed /\ inv[i].issued = 0 /\ inv[i].probed = 0
            /\ inv[i].pc = "done" => inv[i].status = "error"

\* what the code does keep of C14: no move and no probe command is issued,
\* nothing is written, and the command ends in an error
C14_NoMoveAndAnError ==
    \A i \in Invs :
        MissingCoordinate(i) =>
            /\ inv[i].issued = 0 /\ inv[i].probed = 0 /\ ~inv[i].wrote
            /\ inv[i].pc = "done" => inv[i].status = "error"

\* the flag is set in such an invocation
C14_FlagCase ==
    \A i \in Invs : MissingCoordinate(i) => ~inv[i].ran

\* C15: the snapshot of a graph thread is the sample collection of its run as
\* it was when the snapshot was taken, the live collection is empty right
\* after, no later step of a command changes the snapshot, and what the
\* thread plots is that snapshot.
C15_SnapshotIsStable ==
    [][\A t \in 1..Len(graph_threads') :
          LET th == graph_threads'[t]
          IN  IF t > Len(graph_threads)
              THEN /\ th.data_snapshot = collected_data["gantry"]
                   /\ Len(th.data_snapshot) = th.appended
                   /\ collected_data'["gantry"] = <<>>
              ELSE /\ th.data_snapshot = graph_threads[t].data_snapshot
                   /\ th.seen # <<>> => th.seen[1].data = graph_threads[t].data_snapshot
      ]_vars

\* a thread plotted its snapshot of four samples after a later invocation
\* had cleared the live collection and appended samples of its own
C15_Witness ==
    \E t \in 1..Len(graph_threads) :
        /\ graph_threads[t].pc = "done" /\ graph_threads[t].seen # <<>>
        /\ Len(graph_threads[t].seen[1].data) = 4
        /\ \E i \in Invs : /\ i # graph_threads[t].by /\ inv[i].cmd = "gantry"
                            /\ inv[i].appended > 0 /\ ~inv[i].handed
                            /\ Len(collected_data["gantry"]) = inv[i].appended

\* C16: the metadata a graph thread composes its subtitle from is the
\* metadata of the run that produced its snapshot, as it was when the thread
\* was started, whatever later invocations do.
C16_MetadataIsOfTheRun ==
    \A t \in 1..Len(graph_threads) :
        graph_threads[t].seen # <<>> =>
            graph_threads[t].seen[1].meta = graph_threads[t].meta

\* the position formula of the claims: index i of size positions on [lo, hi]
AxisPosition(lo, hi, i, size) ==
    IF size = 1 THEN (lo + hi) \div 2 ELSE lo + ((hi - lo) * i) \div (size - 1)

\* the positions of a swept axis, as a set
AxisPositions(lo, hi, size) == {AxisPosition(lo, hi, i, size) : i \in 0..(size - 1)}

\* the last call was a planner call that returned a plan
Planned(fn) == call.fn = fn /\ ~call.raised

\* C17: in every plan the positions along a swept axis are the formula's
\* positions on that axis's own bounds (min first and max last for two or more
\* positions, the midpoint for one): X on [min_x, max_x], Y on [min_y, max_y],
\* for single-axis X, single-axis Y, compensation, raster and serpentine plans.
C17_OneFormulaOnOwnBounds ==
    /\ (Planned("BeaconPoints") /\ call.axis = "X") =>
          \A k \in 1..Len(call.points) :
              call.points[k][1] =
                  AxisPosition(call.self.min_x, call.self.max_x, k - 1, call.size)
    /\ (Planned("BeaconPoints") /\ call.axis = "Y") =>
          \A k \in 1..Len(call.points) :
              call.points[k][2] =
                  AxisPosition(call.self.min_y, call.self.max_y, k - 1, call.size)
    /\ (Planned("GantryPoints") /\ call.mode = 1) =>
          \A k \in 1..Len(call.points) :
              call.points[k][1] =
                  AxisPosition(call.bounds.min_x, call.bounds.max_x, k - 1, call.size)
    /\ (Planned("GantryPoints") /\ call.mode = 0) =>
          /\ {call.points[k][1] : k \in 1..Len(call.points)} =
                 AxisPositions(call.bounds.min_x, call.bounds.max_x, call.size)
          /\ {call.points[k][2] : k \in 1..Len(call.points)} =
                 AxisPositions(call.bounds.min_y, call.bounds.max_y, call.size)

\* C17 without the Y plan of the single-axis planner
C17_ExceptSingleAxisY ==
    /\ (Planned("BeaconPoints") /\ call.axis = "X") =>
          \A k \in 1..Len(call.points) :
              call.points[k][1] =
                  AxisPosition(call.self.min_x, call.self.max_x, k - 1, call.size)
    /\ (Planned("GantryPoints") /\ call.mode = 1) =>
          \A k \in 1..Len(call.points) :
              call.points[k][1] =
                  AxisPosition(call.bounds.min_x, call.bounds.max_x, k - 1, call.size)
    /\ (Planned("GantryPoints") /\ call.mode = 0) =>
          /\ {call.points[k][1] : k \in 1..Len(call.points)} =
                 AxisPositions(call.bounds.min_x, call.bounds.max_x, call.size)
          /\ {call.points[k][2] : k \in 1..Len(call.points)} =
                 AxisPositions(call.bounds.min_y, call.bounds.max_y, call.size)

\* the indices at which the plan visits the cell (i, j) of the grid
Visits(i, j) ==
    {k \in 1..Len(call.points) :
        call.points[k] =
            <<AxisPosition(call.bounds.min_x, call.bounds.max_x, i, call.size),
              AxisPosition(call.bounds.min_y, call.bounds.max_y, j, call.size)>>}

\* C18: a grid plan of size n >= 2 has n * n points and visits every cell of
\* the grid exactly once, in each of the four sampling directions; a
\* single-axis plan and a compensation plan have the requested number of points.
C18_PlanCoversGridOnce ==
    /\ (Planned("GantryPoints") /\ call.mode = 0 /\ call.size >= 2) =>
          /\ Len(call.points) = call.size * call.size
          /\ \A i, j \in 0..(call.size - 1) : Cardinality(Visits(i, j)) = 1
    /\ (Planned("GantryPoints") /\ call.mode = 1) => Len(call.points) = call.size
    /\ Planned("BeaconPoints") => Len(call.points) = call.size

\* a serpentine plan of a 3 x 3 grid
C18_Witness ==
    /\ Planned("GantryPoints") /\ call.mode = 0 /\ call.dir = "yx" /\ call.size = 3
    /\ Len(call.points) = 9
    /\ Cardinality({call.points[k] : k \in 1..9}) = 9

\* index visited at place c of row r when rows alternate
Alternating(r, c, n) == IF r % 2 = 0 THEN c ELSE n - 1 - c

\* C19: a serpentine-xy plan visits the rows in increasing Y order, the X
\* index ascending in even rows and descending in odd rows; serpentine-yx is
\* the same with X and Y exchanged.
C19_SerpentineAlternates ==
    /\ (Planned("GantryPoints") /\ call.mode = 0 /\ call.dir = "xy") =>
          \A r, c \in 0..(call.size - 1) :
              call.points[r * call.size + c + 1] =
                  <<AxisPosition(call.bounds.min_x, call.bounds.max_x,
                                 Alternating(r, c, call.size), call.size),
                    AxisPosition(call.bounds.min_y, call.bounds.max_y, r, call.size)>>
    /\ (Planned("GantryPoints") /\ call.mode = 0 /\ call.dir = "yx") =>
          \A r, c \in 0..(call.size - 1) :
              call.points[r * call.size + c + 1] =
                  <<AxisPosition(call.bounds.min_x, call.bounds.max_x, r, call.size),
                    AxisPosition(call.bounds.min_y, call.bounds.max_y,
                                 Alternating(r, c, call.size), call.size)>>

\* bounds 0..10 mm, grid size 3: the rows are [0, 5, 10], [10, 5, 0], [0, 5, 10]
C19_Witness ==
    /\ Planned("GantryPoints") /\ call.mode = 0 /\ call.dir = "xy" /\ call.size = 3
    /\ call.bounds.min_x = 0 /\ call.bounds.max_x = 10000
    /\ [k \in 1..9 |-> call.points[k][1]] =
          <<0, 5000, 10000, 10000, 5000, 0, 0, 5000, 10000>>
    /\ [k \in 1..9 |-> call.points[k][2]] =
          <<0, 0, 0, 5000, 5000, 5000, 10000, 10000, 10000>>

UpperChar(c) ==
    CASE c = "a" -> "A" [] c = "b" -> "B" [] c = "c" -> "C" [] c = "d" -> "D"
      [] c = "e" -> "E" [] c = "f" -> "F" [] c = "g" -> "G" [] c = "h" -> "H"
      [] c = "i" -> "I" [] c = "j" -> "J" [] c = "k" -> "K" [] c = "l" -> "L"
      [] c = "m" -> "M" [] c = "n" -> "N" [] c = "o" -> "O" [] c = "p" -> "P"
      [] c = "q" -> "Q" [] c = "r" -> "R" [] c = "s" -> "S" [] c = "t" -> "T"
      [] c = "u" -> "U" [] c = "v" -> "V" [] c = "w" -> "W" [] c = "x" -> "X"
      [] c = "y" -> "Y" [] c = "z" -> "Z" [] OTHER -> c
Upper(s) == [k \in 1..Len(s) |-> UpperChar(s[k])]

LowerLetters ==
    <<"a", "b", "c", "d", "e", "f", "g", "h", "i", "j", "k", "l", "m",
      "n", "o", "p", "q", "r", "s", "t", "u", "v", "w", "x", "y", "z">>
\* the text in lower case: every upper-case letter replaced by the letter it
\* is the upper case of
LowerCased(s) ==
    [k \in 1..Len(s) |->
        IF \E l \in 1..26 : UpperChar(LowerLetters[l]) = s[k]
        THEN LowerLetters[CHOOSE l \in 1..26 : UpperChar(LowerLetters[l]) = s[k]]
        ELSE s[k]]
\* m occurs in s
IsSubstring(m, s) == \E a \in 0..Len(s) : \E b \in a..Len(s) : SubSeq(s, a + 1, b) = m

\* C20: the classifier returns fatal exactly when the lower-cased text of the
\* error contains a marker of the list, whatever the letter case of the text:
\* "MCU Shutdown" is fatal, "probe timeout due to retries" is not.
C20_FatalIffMarkerInLowerCasedText ==
    call.fn = "_is_fatal_klipper_error" =>
        /\ call.fatal = (\E m \in 1..Len(fatal_markers) :
                            IsSubstring(fatal_markers[m], LowerCased(call.err)))
        /\ call.fatal = _is_fatal_klipper_error(Upper(call.err))
        /\ call.fatal = _is_fatal_klipper_error(LowerCased(call.err))
        /\ call.err = ErrorTexts[1] => call.fatal
        /\ call.err = ErrorTexts[2] => ~call.fatal

\* a text in mixed case that is fatal by a marker inside it
C20_Witness ==
    /\ call.fn = "_is_fatal_klipper_error" /\ call.fatal
    /\ call.err # LowerCased(call.err)
    /\ \E m \in 1..Len(fatal_markers) : Len(fatal_markers[m]) < Len(call.err)
    /\ ~IsSubstring(fatal_markers[1], LowerCased(call.err))

\* the samples of the command of invocation i
SamplesNow(i) == collected_data[inv[i].cmd]

\* C21: the points of a run are attempted in plan order, one at a time, each
\* with its events in the order move, wait for the move, settle dwell, probe
\* compare, sample append, point dwell; nothing of the next point happens
\* before the iteration of the point has ended.
C21_PointsInOrderOneAtATime ==
    [][\A i \in Invs :
          LET a == inv[i].pc
              b == inv'[i].pc
              k == inv[i].idx
              same == collected_data'[inv[i].cmd] = SamplesNow(i)
          IN  (a \in PointPcs \cup {"report"} /\ inv'[i] # inv[i]) =>
                /\ \/ a = b /\ inv'[i].idx = k /\ same
                   \/ a = "report" /\ b = "move" /\ inv'[i].idx = k /\ same
                        /\ inv'[i].issued = k /\ inv[i].issued = k - 1
                   \/ a = "report" /\ b = "finally" /\ same
                   \/ /\ <<a, b>> \in {<<"move", "wait_move">>, <<"wait_move", "settle">>,
                                       <<"settle", "compare">>, <<"compare", "wait_probe">>}
                      /\ inv'[i].idx = k /\ same
                      /\ inv'[i].probed = IF b = "compare" THEN k ELSE inv[i].probed
                   \/ /\ a = "wait_probe" /\ b = "point_dwell" /\ inv'[i].idx = k
                      /\ Len(collected_data'[inv[i].cmd]) = Len(SamplesNow(i)) + 1
                      /\ collected_data'[inv[i].cmd][Len(SamplesNow(i)) + 1].grid_index = k
                      /\ inv[i].probed = k
                   \/ /\ a \in PointPcs /\ b = "report" /\ inv'[i].idx = k + 1 /\ same
                   \/ /\ a \in PointPcs /\ b = "finally" /\ same
                /\ inv'[i].issued <= inv'[i].idx
                /\ inv'[i].probed <= inv'[i].issued
                /\ b \in PointPcs => inv'[i].issued = inv'[i].idx
      ]_vars

\* the second point is in its point dwell, after the first ended by success
C21_Witness ==
    \E i \in Invs :
        /\ inv[i].pc = "point_dwell" /\ inv[i].idx = 2 /\ inv[i].completed = 1
        /\ inv[i].issued = 2 /\ inv[i].probed = 2 /\ Len(SamplesNow(i)) = 2
        /\ SamplesNow(i)[2].grid_index = 2

\* the loop of invocation i, a run of the analysis mode, has stopped at a
\* compare without a result
StoppedWithoutResult(i) ==
    /\ inv[i].cmd = "gantry" /\ inv[i].exit = "noresult" /\ mode = 0

\* C22: in analysis mode a compare without a result at point k abandons the
\* rest of the plan: no move or probe is issued for a point after k, point k
\* counts neither as completed nor as failed, the command does not raise
\* because of it, and the samples collected before k are handed to the
\* rendering step.
C22_NoResultStopsTheRun ==
    [][\A i \in Invs :
          /\ ( /\ inv[i].cmd = "gantry" /\ mode = 0
               /\ inv[i].pc = "wait_probe" /\ last_offset_result = <<>>
               /\ inv'[i] # inv[i]
               /\ inv'[i].raised = inv[i].raised
               /\ inv'[i].cancel_at = inv[i].cancel_at )
             => /\ inv'[i].exit = "noresult" /\ inv'[i].pc = "finally"
                /\ inv'[i].completed = inv[i].completed
                /\ inv'[i].failed = inv[i].failed
                /\ ~inv'[i].exc
                /\ collected_data' = collected_data
          /\ StoppedWithoutResult(i)
             => /\ inv[i].pc \in AfterLoopPcs \cup {"finally", "done"}
                /\ inv[i].issued = inv[i].idx /\ inv[i].probed = inv[i].idx
                /\ inv[i].completed + inv[i].failed = inv[i].idx - 1
                /\ (inv[i].pc = "finally" /\ inv'[i] # inv[i])
                   => inv'[i].pc = "return" /\ inv'[i].status # "error"
                /\ (inv'[i].status = "error" /\ inv[i].status # "error")
                   => inv[i].pc \in {"return", "heaters_off"}
                /\ ~inv[i].handed => Len(collected_data["gantry"]) = inv[i].appended
                /\ (inv[i].pc = "done" /\ inv[i].status = "ok")
                   => /\ inv[i].handed
                      /\ Len(graph_threads) > 0
                      /\ LET th == graph_threads[Len(graph_threads)]
                         IN  /\ th.by = i
                             /\ Len(th.data_snapshot) = inv[i].appended
                             /\ \A n \in 1..Len(th.data_snapshot) :
                                    th.data_snapshot[n].grid_index < inv[i].idx
      ]_vars

\* a run stopped at its second point has handed its one sample to a graph thread
C22_Witness ==
    \E i \in Invs :
        /\ StoppedWithoutResult(i) /\ inv[i].idx = 2 /\ inv[i].handed
        /\ inv[i].completed = 1 /\ inv[i].failed = 0
        /\ Len(graph_threads[Len(graph_threads)].data_snapshot) = 1

\* invocation i is between two iterations of its loop, or after a loop that no
\* fatal error has ended
BetweenPoints(i) ==
    /\ inv[i].pc \in {"report", "finally"} \cup AfterLoopPcs
    /\ inv[i].exit # "fatal"

\* C23: at the end of every iteration the completed counter is the number of
\* samples appended during the run, wherever in the iteration a recoverable
\* error was raised, the point dwell after the append included.
C23_CompletedCountsSamples ==
    \A i \in Invs : (inv[i].ran /\ BetweenPoints(i)) => inv[i].completed = inv[i].appended

\* C23, the part that holds: a sample without a completed point is a point
\* counted as failed
C23_SamplesWithinCounters ==
    \A i \in Invs :
        (inv[i].ran /\ BetweenPoints(i))
        => /\ inv[i].completed <= inv[i].appended
           /\ inv[i].appended <= inv[i].completed + inv[i].failed

\* a point is counted as failed and its sample is in the collection
C23_FailedPointHasSample ==
    \E i \in Invs :
        /\ inv[i].ran /\ inv[i].pc = "report" /\ inv[i].idx = 2
        /\ inv[i].failed = 1 /\ inv[i].completed = 0
        /\ Len(SamplesNow(i)) = 1 /\ SamplesNow(i)[1].grid_index = 1

\* C24: the collected samples are always in plan order: their indices are
\* strictly increasing (so none appears twice), each lies in 1..total planned,
\* and the x and y of a sample are those of the planned point with its index.
C24_SamplesInPlanOrder ==
    \A o \in Objs :
        LET d == collected_data[o]
        IN  /\ \A n \in 1..Len(d) : d[n].grid_index >= 1
            /\ \A n \in 1..(Len(d) - 1) : d[n].grid_index < d[n + 1].grid_index
            /\ \A i \in Invs :
                  (inv[i].cmd = o /\ inv[i].ran)
                  => \A n \in 1..Len(d) :
                        /\ d[n].grid_index <= Len(inv[i].points)
                        /\ d[n].x = inv[i].points[d[n].grid_index][1]
                        /\ d[n].y = inv[i].points[d[n].grid_index][2]

\* C24, one run at a time: two samples around a failed point, the indices 1 and 3
C24_GapCase ==
    \E i \in Invs :
        /\ inv[i].ran /\ inv[i].failed = 1 /\ Len(SamplesNow(i)) = 2
        /\ SamplesNow(i)[1].grid_index = 1 /\ SamplesNow(i)[2].grid_index = 3

\* the step is the rejection of invocation i
Rejects(i) == inv'[i].rejected /\ ~inv[i].rejected

\* C25: an invocation rejected because a run is in progress changes nothing
\* of the running run: the flag, the collected samples, the selected mode and
\* the run metadata are after the rejection what they were before it.
C25_RejectionChangesNothing ==
    [][\A i \in Invs :
          Rejects(i) => /\ test_running' = test_running
                        /\ collected_data' = collected_data
                        /\ mode' = mode
                        /\ meta' = meta
      ]_vars

\* C25, the part that holds: the flag and the samples are left alone
C25_FlagAndSamplesKept ==
    [][\A i \in Invs :
          Rejects(i) => /\ test_running' = test_running
                        /\ collected_data' = collected_data
      ]_vars

\* a run started in analysis mode is in its loop with the compensation mode
\* selected by a rejected invocation
C25_ModeChangedUnderRun ==
    \E i, j \in Invs :
        /\ inv[j].cmd = "gantry" /\ inv[j].rejected
        /\ inv[i].cmd = "gantry" /\ inv[i].pc \in PointPcs
        /\ meta.mode = "Compensation" /\ mode = 1
        /\ Len(inv[i].points) = grid_size * grid_size

\* the last call planned a raster of direction dir
Raster(dir) == Planned("GantryPoints") /\ call.mode = 0 /\ call.dir = dir

\* position i of the X axis and of the Y axis of the last planner call
PlanX(i) == AxisPosition(call.bounds.min_x, call.bounds.max_x, i, call.size)
PlanY(i) == AxisPosition(call.bounds.min_y, call.bounds.max_y, i, call.size)

\* C26: a raster-x plan visits all the X columns of a Y row in increasing X
\* order before the next Y row, the rows in increasing Y order; a raster-y
\* plan visits all the Y positions of an X column in increasing Y order before
\* the next X column, the columns in increasing X order.
C26_RasterOrder ==
    /\ Raster("x") =>
          /\ Len(call.points) = call.size * call.size
          /\ \A r, c \in 0..(call.size - 1) :
                 call.points[r * call.size + c + 1] = <<PlanX(c), PlanY(r)>>
          /\ \A k \in 1..(Len(call.points) - 1) :
                 LET p == call.points[k]
                     q == call.points[k + 1]
                 IN  /\ call.bounds.min_x < call.bounds.max_x
                        => (p[1] < q[1] /\ p[2] = q[2]) \/ k % call.size = 0
                     /\ call.bounds.min_y < call.bounds.max_y
                        => IF k % call.size = 0 THEN p[2] < q[2] ELSE p[2] = q[2]
    /\ Raster("y") =>
          /\ Len(call.points) = call.size * call.size
          /\ \A r, c \in 0..(call.size - 1) :
                 call.points[r * call.size + c + 1] = <<PlanX(r), PlanY(c)>>
          /\ \A k \in 1..(Len(call.points) - 1) :
                 LET p == call.points[k]
                     q == call.points[k + 1]
                 IN  /\ call.bounds.min_y < call.bounds.max_y
                        => (p[2] < q[2] /\ p[1] = q[1]) \/ k % call.size = 0
                     /\ call.bounds.min_x < call.bounds.max_x
                        => IF k % call.size = 0 THEN p[1] < q[1] ELSE p[1] = q[1]

\* a raster-x plan of a 3 x 3 grid: the second row starts again at the first column
C26_Witness ==
    /\ Raster("x") /\ call.size = 3 /\ Len(call.points) = 9
    /\ call.bounds.min_x < call.bounds.max_x /\ call.bounds.min_y < call.bounds.max_y
    /\ call.points[3][1] = call.bounds.max_x /\ call.points[4][1] = call.bounds.min_x
    /\ call.points[3][2] < call.points[4][2]

\* a raster-y plan of a 3 x 3 grid: the second column starts again at the first row
C26_WitnessY ==
    /\ Raster("y") /\ call.size = 3 /\ Len(call.points) = 9
    /\ call.bounds.min_x < call.bounds.max_x /\ call.bounds.min_y < call.bounds.max_y
    /\ call.points[3][2] = call.bounds.max_y /\ call.points[4][2] = call.bounds.min_y
    /\ call.points[3][1] < call.points[4][1]

\* the step is an invocation of GANTRY_TWIST_UTILITY that exits at once
\* with the report of an invalid mode
InvalidModeExit(i) ==
    /\ inv[i].pc \in {"idle", "done"} /\ inv'[i] # inv[i]
    /\ inv'[i].cmd = "gantry" /\ inv'[i].pc = "done"
    /\ inv'[i].status = "ok" /\ ~inv'[i].rejected

\* C27: an invocation of GANTRY_TWIST_UTILITY with an invalid MODE does not
\* change the mode that later invocations without a MODE parameter run in.
C27_InvalidModeLeavesMode ==
    [][\A i \in Invs : InvalidModeExit(i) => mode' = mode]_vars

\* after an invalid MODE the selected mode is not the configured one, and no
\* invocation is under way that could still set it
C27_InvalidModeSelected ==
    /\ mode \notin {0, 1} /\ mode # config_mode
    /\ \A i \in Invs : inv[i].pc \in {"idle", "done"}
    /\ \E i \in Invs : inv[i].cmd = "gantry" /\ inv[i].pc = "done" /\ ~inv[i].ran

\* invocation i has passed its "already running" check
Accepted(i) == inv[i].cmd \in Objs /\ inv[i].before # <<>>

\* the table of invocation i in the running compensation object
TableOf(i) ==
    IF inv[i].cmd = "beacon" /\ inv[i].axis # "X" THEN runtime["zy_compensations"]
    ELSE runtime["z_compensations"]

C29_CountersMonotoneAndBounded ==
    [][\A i \in Invs :
          /\ (inv[i].cmd \in Objs /\ inv'[i].cmd = inv[i].cmd)
             => /\ inv'[i].completed >= inv[i].completed
                /\ inv'[i].failed >= inv[i].failed
                /\ inv'[i].completed + inv'[i].failed
                      <= inv[i].completed + inv[i].failed + 1
          /\ inv[i].ran => inv[i].completed + inv[i].failed <= Len(inv[i].points)
          /\ inv[i].exit = "exhausted"
             => inv[i].completed + inv[i].failed = Len(inv[i].points)
      ]_vars

\* a plan exhausted with one failed point
C29_Witness ==
    \E i \in Invs :
        /\ inv[i].exit = "exhausted" /\ inv[i].failed = 1
        /\ inv[i].completed = Len(inv[i].points) - 1 /\ inv[i].completed >= 2

\* the last call planned a serpentine of two or more positions per axis
Serpentine ==
    /\ Planned("GantryPoints") /\ call.mode = 0
    /\ call.dir \in {"xy", "yx"} /\ call.size >= 2

\* the grid indices of a planned point
CellX(p) == CHOOSE i \in 0..(call.size - 1) : PlanX(i) = p[1]
CellY(p) == CHOOSE j \in 0..(call.size - 1) : PlanY(j) = p[2]

Distance(a, b) == IF a >= b THEN a - b ELSE b - a

\* C30: in a serpentine-xy or serpentine-yx plan of grid size >= 2 every two
\* consecutive points are neighbouring cells: one index step along exactly one
\* axis, the same index on the other.
C30_SerpentineStepsToNeighbours ==
    Serpentine =>
        /\ \A k \in 1..Len(call.points) :
               /\ \E i \in 0..(call.size - 1) : PlanX(i) = call.points[k][1]
               /\ \E j \in 0..(call.size - 1) : PlanY(j) = call.points[k][2]
        /\ \A k \in 1..(Len(call.points) - 1) :
               LET p == call.points[k]
                   q == call.points[k + 1]
               IN  Distance(CellX(p), CellX(q)) + Distance(CellY(p), CellY(q)) = 1

\* a serpentine-xy plan of a 3 x 3 grid turns at the end of its first row:
\* points 3 and 4 are in the last column, one row apart
C30_Witness ==
    /\ Serpentine /\ call.dir = "xy" /\ call.size = 3
    /\ CellX(call.points[3]) = 2 /\ CellX(call.points[4]) = 2
    /\ CellY(call.points[3]) = 0 /\ CellY(call.points[4]) = 1
====
